---------------------------- MODULE Spec2Model ----------------------------
(***************************************************************************)
(* A model of src/transcriber.py (class HQTranscriber): the result         *)
(* aggregation of transcribe, the multi-format output loop of              *)
(* transcribe_file, the SRT / VTT writers and _format_timestamp.           *)
(*                                                                         *)
(* Text is a sequence of one-character strings, so that strip, replace and *)
(* zero padding are computed character by character as Python does.        *)
(* A float number of seconds is a record [s, us, err]: whole seconds, the   *)
(* microseconds after them, and where the binary double lies relative to   *)
(* that decimal value: "exact" (the value is a multiple of 1/64 s, which a *)
(* double holds exactly), "below" or "above". err decides the rounding of  *)
(* a decimal half-way case and nothing else; % 60 and // 3600 are exact on *)
(* doubles of this size, so the remainder keeps the err of the value.      *)
(*                                                                         *)
(* Not modelled: the confidence metrics and the word list of a segment and *)
(* the metadata of the result (language, durations, settings), which the   *)
(* code copies verbatim; logging; a failure of Path.mkdir.                 *)
(***************************************************************************)
EXTENDS Integers, Sequences, FiniteSets, TLC

VARIABLES
    entry,            \* the public method called: "transcribe" or "transcribe_file"
    audio_exists,     \* os.path.exists(audio_path)
    output_path,      \* the output_path argument: "None" or the directory "out"
    output_formats,   \* the output_formats argument
    dirs,             \* the requested directories that exist on disk
    files, \* extension -> <<>> (no file) or <<content>>
    pc,               \* the position of the call
    loader_calls,     \* calls of preprocess_audio (librosa.load)
    adapter_calls,    \* calls of self.model.transcribe
    emitted,          \* the segments the adapter's generator has yielded so far
    segment_list,     \* transcribe's local segment_list
    full_text,        \* transcribe's local full_text
    result,           \* <<>> or <<the result dictionary>>
    returned,         \* the public method returned result to its caller
    caught,           \* the exception in flight in transcribe's try block, or "none"
    raised,           \* the exception that left the public method, or "none"
    fmt_i,            \* the index of the for loop over output_formats
    writes,           \* the extensions whose writer was entered, in order
    ts_seconds,       \* the argument of _format_timestamp (timestamp harness)
    ts_srt,           \* <<>> or <<_format_timestamp(ts_seconds)>>
    ts_vtt            \* <<>> or <<_format_timestamp(ts_seconds, vtt=True)>>

vars == <<entry, audio_exists, output_path, output_formats, dirs, files, pc,
          loader_calls, adapter_calls, emitted, segment_list, full_text,
          result, returned, caught, raised, fmt_i, writes, ts_seconds, ts_srt,
          ts_vtt>>

call_vars == <<entry, audio_exists, output_path, output_formats, dirs, files, pc,
               loader_calls, adapter_calls, emitted, segment_list, full_text,
               result, returned, caught, raised, fmt_i, writes>>

ts_vars == <<ts_seconds, ts_srt, ts_vtt>>

----------------------------------------------------------------------------
(* Bounds of the model. *)

\* The longest segment stream the adapter yields.
MaxSegs == 2

\* The longest output_formats list.
MaxFormats == 3

\* The whole seconds tried after each base value of the timestamp harness.
TsSlack == 1

----------------------------------------------------------------------------
(* Text. *)

DigitChars == <<"0", "1", "2", "3", "4", "5", "6", "7", "8", "9">>

\* Python's str.strip() removes these from both ends.
Whitespace == {" ", "\t", "\n", "\r"}

RECURSIVE lstrip(_)
lstrip(cs) ==
    IF cs # <<>> /\ Head(cs) \in Whitespace THEN lstrip(Tail(cs)) ELSE cs

RECURSIVE rstrip(_)
rstrip(cs) ==
    IF cs # <<>> /\ cs[Len(cs)] \in Whitespace
    THEN rstrip(SubSeq(cs, 1, Len(cs) - 1))
    ELSE cs

strip(cs) == rstrip(lstrip(cs))

\* str.replace(old, new) for one-character old and new.
replace(cs, old, new) ==
    [i \in 1..Len(cs) |-> IF cs[i] = old THEN new ELSE cs[i]]

\* The decimal digits of a natural number (format type d).
RECURSIVE Dec(_)
Dec(n) ==
    IF n < 10 THEN <<DigitChars[n + 1]>>
    ELSE Dec(n \div 10) \o <<DigitChars[(n % 10) + 1]>>

\* Zero padding on the left to a minimum width (format flag 0 with a width):
\* a longer text is left as it is.
RECURSIVE ZeroPad(_, _)
ZeroPad(cs, width) ==
    IF Len(cs) >= width THEN cs ELSE ZeroPad(<<"0">> \o cs, width)

----------------------------------------------------------------------------
(* _format_timestamp. *)

\* Format02d with the hours cut to their last two digits.
Format02d_truncating(n) == ZeroPad(Dec(n % 100), 2)

\* {n:02d}
Format02d(n) == ZeroPad(Dec(n), 2)

\* The thousandths of secs after rounding to three decimals: format .3f rounds
\* the double's exact value to nearest, and an exact half to even.
RoundedMillis(secs) ==
    LET floor_ms == secs.s * 1000 + (secs.us \div 1000)
        rem == secs.us % 1000
        half_up == \/ secs.err = "above"
                   \/ (secs.err = "exact" /\ floor_ms % 2 = 1)
        carry == IF rem > 500 \/ (rem = 500 /\ half_up) THEN 1 ELSE 0
    IN  floor_ms + carry

\* {secs:06.3f}
Format063f(secs) ==
    LET ms == RoundedMillis(secs)
    IN  ZeroPad(Dec(ms \div 1000) \o <<".">> \o ZeroPad(Dec(ms % 1000), 3), 6)

format_timestamp(seconds, vtt) ==
    LET hours == seconds.s \div 3600
        minutes == (seconds.s % 3600) \div 60
        secs == [s |-> seconds.s % 60, us |-> seconds.us, err |-> seconds.err]
        text == Format02d(hours) \o <<":">> \o Format02d(minutes) \o <<":">>
                \o Format063f(secs)
    IN  IF vtt THEN text ELSE replace(text, ".", ",")

----------------------------------------------------------------------------
(* The timestamp harness: _format_timestamp applied to bounded inputs. *)

TsBases == {0, 5, 59, 3599, 3725, 359999, 360000}

\* Whole milliseconds, half-way cases (0.0005, and 0.0625 and 0.1875, which
\* doubles hold exactly) and values just below a whole second.
TsMicros ==
    {0, 500, 1000, 62500, 125000, 187500, 500000, 999000, 999400, 999600}

\* The err a double of us microseconds past a whole second can have.
ErrsOf(us) == IF us % 15625 = 0 THEN {"exact"} ELSE {"below", "above"}

TsInputs ==
    UNION {{[s |-> b + d, us |-> u, err |-> r] : r \in ErrsOf(u)} :
              b \in TsBases, d \in 0..TsSlack, u \in TsMicros}

NoCall ==
    /\ entry = "none"
    /\ audio_exists = FALSE
    /\ output_path = "None"
    /\ output_formats = <<>>
    /\ dirs = {}
    /\ files = [e \in {"txt", "json", "srt", "vtt"} |-> <<>>]
    /\ pc = "idle"
    /\ loader_calls = 0
    /\ adapter_calls = 0
    /\ emitted = <<>>
    /\ segment_list = <<>>
    /\ full_text = <<>>
    /\ result = <<>>
    /\ returned = FALSE
    /\ caught = "none"
    /\ raised = "none"
    /\ fmt_i = 0
    /\ writes = <<>>

InitTs ==
    /\ NoCall
    /\ ts_seconds \in TsInputs
    /\ ts_srt = <<>>
    /\ ts_vtt = <<>>

TS_FormatSrt ==
    /\ pc = "idle"
    /\ ts_srt = <<>>
    /\ ts_srt' = <<format_timestamp(ts_seconds, FALSE)>>
    /\ UNCHANGED <<ts_seconds, ts_vtt, call_vars>>

TS_FormatVtt ==
    /\ pc = "idle"
    /\ ts_vtt = <<>>
    /\ ts_vtt' = <<format_timestamp(ts_seconds, TRUE)>>
    /\ UNCHANGED <<ts_seconds, ts_srt, call_vars>>

NextTs == TS_FormatSrt \/ TS_FormatVtt

SpecTs == InitTs /\ [][NextTs]_vars

----------------------------------------------------------------------------
(* The segments the inference adapter may yield. *)

\* The times of the pool are multiples of 1/8 s.
T(sec, micro) == [s |-> sec, us |-> micro, err |-> "exact"]

\* id 0, 0.0 -> 1.5, " Hello "
SegHello ==
    [id |-> 0, start |-> T(0, 0), end |-> T(1, 500000),
     text |-> <<" ", "H", "e", "l", "l", "o", " ">>]

\* id 7, 1.5 -> 3.0, " world."
SegWorld ==
    [id |-> 7, start |-> T(1, 500000), end |-> T(3, 0),
     text |-> <<" ", "w", "o", "r", "l", "d", ".">>]

\* id 7 again, 3725.125 -> 360000.5 (over 100 hours), a text of whitespace only
SegBlank ==
    [id |-> 7, start |-> T(3725, 125000), end |-> T(360000, 500000),
     text |-> <<"\n">>]

SegmentPool == {SegHello, SegWorld, SegBlank}

----------------------------------------------------------------------------
(* transcribe: the aggregation of the segment stream. *)

\* segment_dict without the .strip() of the text.
segment_dict_untrimmed(segment) ==
    [id |-> segment.id, start |-> segment.start, end |-> segment.end,
     text |-> segment.text]

\* The plain record made of one yielded segment.
segment_dict(segment) ==
    [id |-> segment.id, start |-> segment.start, end |-> segment.end,
     text |-> strip(segment.text)]

\* accumulate with the trimmed text appended instead of the raw text.
accumulate_stripped(buffer, segment) == buffer \o strip(segment.text)

\* full_text += segment.text
accumulate(buffer, segment) == buffer \o segment.text

\* The result dictionary.
build_result(buffer, segments) ==
    [text |-> strip(buffer), segments |-> segments]

----------------------------------------------------------------------------
(* The format writers. *)

Arrow == <<" ", "-", "-", ">", " ">>

\* srt_cue with the segment's stored id as the index line.
srt_cue_by_id(i, segment) ==
    Dec(segment.id) \o <<"\n">>
    \o format_timestamp(segment.start, FALSE) \o Arrow
    \o format_timestamp(segment.end, FALSE) \o <<"\n">>
    \o strip(segment.text) \o <<"\n", "\n">>

\* One SRT cue block: the index line, the time line, the text, a blank line.
srt_cue(i, segment) ==
    Dec(i) \o <<"\n">>
    \o format_timestamp(segment.start, FALSE) \o Arrow
    \o format_timestamp(segment.end, FALSE) \o <<"\n">>
    \o strip(segment.text) \o <<"\n", "\n">>

\* for i, segment in enumerate(segments, i): write the cue
RECURSIVE srt_cues(_, _)
srt_cues(segments, i) ==
    IF segments = <<>> THEN <<>>
    ELSE srt_cue(i, Head(segments)) \o srt_cues(Tail(segments), i + 1)

\* The content _save_srt writes.
save_srt(segments) == srt_cues(segments, 1)

vtt_cue(segment) ==
    format_timestamp(segment.start, TRUE) \o Arrow
    \o format_timestamp(segment.end, TRUE) \o <<"\n">>
    \o strip(segment.text) \o <<"\n", "\n">>

RECURSIVE vtt_cues(_)
vtt_cues(segments) ==
    IF segments = <<>> THEN <<>>
    ELSE vtt_cue(Head(segments)) \o vtt_cues(Tail(segments))

\* The content _save_vtt writes.
save_vtt(segments) ==
    <<"W", "E", "B", "V", "T", "T", "\n", "\n">> \o vtt_cues(segments)

\* json.dump(result, f): the document, its textual encoding left abstract.
json_dump(res) ==
    [document |-> "json", text |-> res.text, segments |-> res.segments]

KnownFormats == {"txt", "json", "srt", "vtt"}

\* What a completed writer leaves in <base_name>_transcript.<fmt>.
file_content(fmt, res) ==
    CASE fmt = "txt" -> res.text
      [] fmt = "json" -> json_dump(res)
      [] fmt = "srt" -> save_srt(res.segments)
      [] fmt = "vtt" -> save_vtt(res.segments)

----------------------------------------------------------------------------
(* One call of transcribe or transcribe_file. *)

FormatTags == KnownFormats \cup {"csv"}

FormatLists == UNION {[1..n -> FormatTags] : n \in 0..MaxFormats}

Init ==
    /\ entry \in {"transcribe", "transcribe_file"}
    /\ audio_exists \in BOOLEAN
    /\ output_path \in
          (IF entry = "transcribe_file" THEN {"None", "out"} ELSE {"None"})
    /\ output_formats \in
          (IF entry = "transcribe_file" THEN FormatLists ELSE {<<>>})
    /\ dirs \in (IF output_path = "out" THEN SUBSET {"out"} ELSE {{}})
    /\ files = [e \in KnownFormats |-> <<>>]
    /\ pc = IF entry = "transcribe_file" THEN "tf_resolve" ELSE "t_exists"
    /\ loader_calls = 0
    /\ adapter_calls = 0
    /\ emitted = <<>>
    /\ segment_list = <<>>
    /\ full_text = <<>>
    /\ result = <<>>
    /\ returned = FALSE
    /\ caught = "none"
    /\ raised = "none"
    /\ fmt_i = 0
    /\ writes = <<>>
    /\ ts_seconds = T(0, 0)
    /\ ts_srt = <<>>
    /\ ts_vtt = <<>>

\* transcribe_file, lines 304-309: the output directory is resolved, and created
\* when one is given, before transcribe is called.
TF_ResolveOutput ==
    /\ pc = "tf_resolve"
    /\ dirs' = IF output_path = "None" THEN dirs ELSE dirs \cup {output_path}
    /\ pc' = "t_exists"
    /\ UNCHANGED <<caught, entry, audio_exists, output_path, output_formats,
                   files, loader_calls, adapter_calls, emitted, segment_list,
                   full_text, result, returned, raised, fmt_i, writes, ts_vars>>

\* T_CheckExists without the os.path.exists test.
T_CheckExists_Unchecked ==
    /\ pc = "t_exists"
    /\ pc' = "t_load"
    /\ UNCHANGED <<caught, entry, audio_exists, output_path, output_formats,
                   dirs, files, loader_calls, adapter_calls, emitted,
                   segment_list, full_text, result, returned, raised, fmt_i,
                   writes, ts_vars>>

\* transcribe, lines 175-176.
T_CheckExists ==
    /\ pc = "t_exists"
    /\ IF audio_exists
       THEN pc' = "t_load" /\ raised' = raised
       ELSE pc' = "failed" /\ raised' = "FileNotFoundError"
    /\ UNCHANGED <<caught, entry, audio_exists, output_path, output_formats,
                   dirs, files, loader_calls, adapter_calls, emitted,
                   segment_list, full_text, result, returned, fmt_i, writes,
                   ts_vars>>

\* transcribe, line 191: the loader returns the samples or raises.
T_PreprocessAudio ==
    /\ pc = "t_load"
    /\ loader_calls' = loader_calls + 1
    /\ \E ok \in BOOLEAN :
         IF ok
         THEN pc' = "t_infer" /\ caught' = caught
         ELSE pc' = "t_except" /\ caught' = "LoaderError"
    /\ UNCHANGED <<entry, audio_exists, output_path, output_formats, dirs,
                   files, adapter_calls, emitted, segment_list, full_text,
                   result, returned, raised, fmt_i, writes, ts_vars>>

\* transcribe, lines 192-219: the adapter returns its lazy stream or raises.
T_ModelTranscribe ==
    /\ pc = "t_infer"
    /\ adapter_calls' = adapter_calls + 1
    /\ \E ok \in BOOLEAN :
         IF ok
         THEN pc' = "t_drain" /\ caught' = caught
         ELSE pc' = "t_except" /\ caught' = "AdapterError"
    /\ UNCHANGED <<entry, audio_exists, output_path, output_formats, dirs,
                   files, loader_calls, emitted, segment_list, full_text,
                   result, returned, raised, fmt_i, writes, ts_vars>>

\* transcribe, lines 224-249: one iteration of the loop over the stream.
T_NextSegment ==
    /\ pc = "t_drain"
    /\ Len(emitted) < MaxSegs
    /\ \E segment \in SegmentPool :
         /\ emitted' = Append(emitted, segment)
         /\ segment_list' = Append(segment_list, segment_dict(segment))
         /\ full_text' = accumulate(full_text, segment)
    /\ UNCHANGED <<caught, entry, audio_exists, output_path, output_formats,
                   dirs, files, pc, loader_calls, adapter_calls, result,
                   returned, raised, fmt_i, writes, ts_vars>>

\* transcribe, line 224: the stream raises while it is drained.
T_StreamFails ==
    /\ pc = "t_drain"
    /\ pc' = "t_except"
    /\ caught' = "AdapterError"
    /\ UNCHANGED <<entry, audio_exists, output_path, output_formats, dirs,
                   files, loader_calls, adapter_calls, emitted, segment_list,
                   full_text, result, returned, raised, fmt_i, writes, ts_vars>>

\* T_Reraise with the exception logged and swallowed: the segments drained so
\* far are returned as the result.
T_Reraise_Swallowed ==
    /\ pc = "t_except"
    /\ result' = <<build_result(full_text, segment_list)>>
    /\ IF entry = "transcribe"
       THEN pc' = "done" /\ returned' = TRUE /\ fmt_i' = fmt_i
       ELSE pc' = "tf_loop" /\ returned' = returned /\ fmt_i' = 1
    /\ UNCHANGED <<caught, entry, audio_exists, output_path, output_formats,
                   dirs, files, loader_calls, adapter_calls, emitted,
                   segment_list, full_text, raised, writes, ts_vars>>

\* transcribe, lines 281-283: the except clause logs the exception and re-raises
\* it; transcribe_file has no handler, so it leaves the public method.
T_Reraise ==
    /\ pc = "t_except"
    /\ pc' = "failed"
    /\ raised' = caught
    /\ UNCHANGED <<caught, entry, audio_exists, output_path, output_formats,
                   dirs, files, loader_calls, adapter_calls, emitted,
                   segment_list, full_text, result, returned, fmt_i, writes,
                   ts_vars>>

\* transcribe, lines 251-279: the stream is exhausted and the result is built;
\* transcribe_file, lines 311-312, goes on to its loop over the formats.
T_StreamEnds ==
    /\ pc = "t_drain"
    /\ result' = <<build_result(full_text, segment_list)>>
    /\ IF entry = "transcribe"
       THEN pc' = "done" /\ returned' = TRUE /\ fmt_i' = fmt_i
       ELSE pc' = "tf_loop" /\ returned' = returned /\ fmt_i' = 1
    /\ UNCHANGED <<caught, entry, audio_exists, output_path, output_formats,
                   dirs, files, loader_calls, adapter_calls, emitted,
                   segment_list, full_text, raised, writes, ts_vars>>

\* WriteFile with the files of the request removed when a write fails.
WriteFile_Cleanup(fmt) ==
    /\ writes' = Append(writes, fmt)
    /\ \E io \in {"ok", "fails"} :
         IF io = "ok"
         THEN /\ files' = [files EXCEPT ![fmt] = <<file_content(fmt, result[1])>>]
              /\ fmt_i' = fmt_i + 1
              /\ UNCHANGED <<pc, raised>>
         ELSE /\ files' = [e \in KnownFormats |-> <<>>]
              /\ pc' = "failed"
              /\ raised' = "OSError"
              /\ UNCHANGED fmt_i
    /\ UNCHANGED <<caught, entry, audio_exists, output_path, output_formats,
                   dirs, loader_calls, adapter_calls, emitted, segment_list,
                   full_text, result, returned, ts_vars>>

\* A writer for fmt: open(path, "w") creates or truncates the file, the content is
\* written and the file closed. open may fail (the file is left as it was) and
\* the write may fail (the file is left truncated); either failure leaves
\* transcribe_file as an OSError.
WriteFile(fmt) ==
    /\ writes' = Append(writes, fmt)
    /\ \E io \in {"ok", "open_fails", "write_fails"} :
         CASE io = "ok" ->
                /\ files' = [files EXCEPT
                                ![fmt] = <<file_content(fmt, result[1])>>]
                /\ fmt_i' = fmt_i + 1
                /\ UNCHANGED <<pc, raised>>
           [] io = "open_fails" ->
                /\ pc' = "failed"
                /\ raised' = "OSError"
                /\ UNCHANGED <<files, fmt_i>>
           [] io = "write_fails" ->
                /\ files' = [files EXCEPT ![fmt] = << <<>> >>]
                /\ pc' = "failed"
                /\ raised' = "OSError"
                /\ UNCHANGED fmt_i
    /\ UNCHANGED <<caught, entry, audio_exists, output_path, output_formats,
                   dirs, loader_calls, adapter_calls, emitted, segment_list,
                   full_text, result, returned, ts_vars>>

InLoop == pc = "tf_loop" /\ fmt_i <= Len(output_formats)

\* transcribe_file, lines 315-319.
TF_WriteTxt == InLoop /\ output_formats[fmt_i] = "txt" /\ WriteFile("txt")

\* transcribe_file, lines 321-326.
TF_WriteJson == InLoop /\ output_formats[fmt_i] = "json" /\ WriteFile("json")

\* transcribe_file, lines 328-331, and _save_srt.
TF_SaveSrt == InLoop /\ output_formats[fmt_i] = "srt" /\ WriteFile("srt")

\* transcribe_file, lines 333-336, and _save_vtt.
TF_SaveVtt == InLoop /\ output_formats[fmt_i] = "vtt" /\ WriteFile("vtt")

\* TF_SkipUnknown with an unrecognized tag rejected.
TF_SkipUnknown_Raises ==
    /\ InLoop
    /\ output_formats[fmt_i] \notin KnownFormats
    /\ pc' = "failed"
    /\ raised' = "ValueError"
    /\ UNCHANGED <<caught, entry, audio_exists, output_path, output_formats,
                   dirs, files, loader_calls, adapter_calls, emitted,
                   segment_list, full_text, result, returned, fmt_i, writes,
                   ts_vars>>

\* transcribe_file, lines 314-336: no branch of the if / elif chain matches.
TF_SkipUnknown ==
    /\ InLoop
    /\ output_formats[fmt_i] \notin KnownFormats
    /\ fmt_i' = fmt_i + 1
    /\ UNCHANGED <<caught, entry, audio_exists, output_path, output_formats,
                   dirs, files, pc, loader_calls, adapter_calls, emitted,
                   segment_list, full_text, result, returned, raised, writes,
                   ts_vars>>

\* transcribe_file, line 338.
TF_Return ==
    /\ pc = "tf_loop"
    /\ fmt_i > Len(output_formats)
    /\ pc' = "done"
    /\ returned' = TRUE
    /\ UNCHANGED <<caught, entry, audio_exists, output_path, output_formats,
                   dirs, files, loader_calls, adapter_calls, emitted,
                   segment_list, full_text, result, raised, fmt_i, writes,
                   ts_vars>>

Next ==
    \/ TF_ResolveOutput
    \/ T_CheckExists
    \/ T_PreprocessAudio
    \/ T_ModelTranscribe
    \/ T_NextSegment
    \/ T_StreamFails
    \/ T_Reraise
    \/ T_StreamEnds
    \/ TF_WriteTxt
    \/ TF_WriteJson
    \/ TF_SaveSrt
    \/ TF_SaveVtt
    \/ TF_SkipUnknown
    \/ TF_Return

Spec == Init /\ [][Next]_vars

----------------------------------------------------------------------------
(* Properties of transcribe and transcribe_file, checked under Spec. *)

NoFiles == \A e \in KnownFormats : files[e] = <<>>

IsKnown(fmt) == fmt \in KnownFormats

\* The formats the loop has gone past.
Processed == SubSeq(output_formats, 1, fmt_i - 1)

Range(seq) == {seq[i] : i \in 1..Len(seq)}

RECURSIVE RawConcat(_)
RawConcat(segments) ==
    IF segments = <<>> THEN <<>>
    ELSE RawConcat(SubSeq(segments, 1, Len(segments) - 1))
         \o segments[Len(segments)].text

\* text is whole with its outer whitespace, and only that, removed.
IsOuterTrimOf(text, whole) ==
    /\ (text # <<>> =>
            /\ text[1] \notin Whitespace
            /\ text[Len(text)] \notin Whitespace)
    /\ \E lead \in 0..Len(whole) :
         /\ lead + Len(text) <= Len(whole)
         /\ text = SubSeq(whole, lead + 1, lead + Len(text))
         /\ \A i \in 1..Len(whole) :
              (i <= lead \/ i > lead + Len(text)) => whole[i] \in Whitespace

\* "Hello  world."
TextHelloWorld ==
    <<"H", "e", "l", "l", "o", " ", " ", "w", "o", "r", "l", "d", ".">>

\* C2: the full text of the result is the concatenation of the raw segment
\* texts in emission order with the outer whitespace of the whole removed;
\* " Hello " then " world." gives "Hello  world.", no segment gives "".
C2_FullTextIsTrimmedConcat ==
    result # <<>> =>
        /\ result[1].text = strip(RawConcat(emitted))
        /\ IsOuterTrimOf(result[1].text, RawConcat(emitted))
        /\ (emitted = <<>> => result[1].text = <<>>)
        /\ (emitted = <<SegHello, SegWorld>> =>
                result[1].text = TextHelloWorld)

C2_Witness ==
    /\ result # <<>>
    /\ emitted = <<SegHello, SegWorld>>
    /\ returned

\* C3: the segment list of the result has one record per emitted segment, in
\* emission order, with the segment's id, start and end and its trimmed text;
\* an empty stream gives an empty list and no failure.
C3_OneRecordPerSegment ==
    result # <<>> =>
        LET segments == result[1].segments IN
        /\ Len(segments) = Len(emitted)
        /\ \A i \in 1..Len(emitted) :
              /\ segments[i].id = emitted[i].id
              /\ segments[i].start = emitted[i].start
              /\ segments[i].end = emitted[i].end
              /\ IsOuterTrimOf(segments[i].text, emitted[i].text)
        /\ caught = "none"
        /\ (entry = "transcribe" => returned /\ raised = "none")

C3_Witness ==
    /\ result # <<>>
    /\ Len(emitted) = 2
    /\ emitted[1] # emitted[2]
    /\ returned

\* C4: a failure of the loader or of the adapter (at the call or while the
\* stream is drained) leaves the call as that failure, with no result and no
\* output file; a writer runs only after transcribe has built its result.
C4_CollaboratorFailurePropagates ==
    /\ caught # "none" =>
          /\ pc \in {"t_except", "failed"}
          /\ (pc = "failed" => raised = caught)
          /\ result = <<>>
          /\ ~returned
          /\ writes = <<>>
          /\ NoFiles
    /\ (writes # <<>> \/ ~NoFiles) =>
          /\ result # <<>>
          /\ caught = "none"
          /\ pc \in {"tf_loop", "done", "failed"}
          /\ Len(result[1].segments) = Len(emitted)

C4_Witness ==
    /\ entry = "transcribe_file"
    /\ output_formats # <<>>
    /\ Len(emitted) = 1
    /\ pc = "failed"
    /\ raised = "AdapterError"

\* C5: an unrecognized format tag causes no write and no error; the recognized
\* tags around it have their files written, and the result is returned.
C5_UnknownTagIgnored ==
    /\ (entry = "transcribe_file" /\ pc \in {"tf_loop", "done"}) =>
          /\ writes = SelectSeq(Processed, IsKnown)
          /\ \A e \in KnownFormats :
                files[e] = IF e \in Range(Processed)
                           THEN <<file_content(e, result[1])>>
                           ELSE <<>>
          /\ raised = "none"
    /\ (entry = "transcribe_file" /\ pc = "done") =>
          /\ returned
          /\ result # <<>>
          /\ fmt_i = Len(output_formats) + 1
    /\ (pc = "failed" /\ fmt_i > 0) =>
          /\ raised = "OSError"
          /\ output_formats[fmt_i] \in KnownFormats

C5_Witness ==
    /\ output_formats = <<"txt", "csv", "srt">>
    /\ pc = "done"
    /\ returned
    /\ files["txt"] # <<>>
    /\ files["srt"] # <<>>
    /\ files["json"] = <<>>

\* A write of the format at fmt_i has failed.
WriteFailed == pc = "failed" /\ raised = "OSError"

\* The statement of C6 as written: after the k-th format fails, the file of
\* every recognized format before it holds its complete content.
C6_EarlierFilesComplete ==
    WriteFailed =>
        \A j \in 1..(fmt_i - 1) :
            output_formats[j] \in KnownFormats =>
                files[output_formats[j]]
                    = <<file_content(output_formats[j], result[1])>>

\* C6 (amended): formats are written in the order of the list; when the write
\* of the k-th fails, the file of every recognized format before it whose tag
\* differs from the k-th tag holds its complete content, no writer after the
\* k-th is entered and the call ends with the failure instead of a result.
C6_NoRollback ==
    WriteFailed =>
        /\ \A j \in 1..(fmt_i - 1) :
              (output_formats[j] \in KnownFormats
                  /\ output_formats[j] # output_formats[fmt_i]) =>
                  files[output_formats[j]]
                      = <<file_content(output_formats[j], result[1])>>
        /\ writes = SelectSeq(SubSeq(output_formats, 1, fmt_i), IsKnown)
        /\ ~returned

C6_Witness ==
    /\ WriteFailed
    /\ fmt_i = 3
    /\ output_formats = <<"txt", "srt", "json">>
    /\ files["txt"] # <<>>
    /\ files["srt"] # <<>>

\* The n-th cue block of an SRT file.
C7_Block(n, segment) ==
    Dec(n) \o <<"\n">>
    \o format_timestamp(segment.start, FALSE) \o <<" ", "-", "-", ">", " ">>
    \o format_timestamp(segment.end, FALSE) \o <<"\n">>
    \o strip(segment.text) \o <<"\n", "\n">>

RECURSIVE C7_Blocks(_, _)
C7_Blocks(segments, n) ==
    IF n = 0 THEN <<>>
    ELSE C7_Blocks(segments, n - 1) \o C7_Block(n, segments[n])

\* The SRT file of " world." (1.5 -> 3.0) followed by " Hello " (0.0 -> 1.5).
SrtWorldHello ==
    <<"1", "\n", "0", "0", ":", "0", "0", ":", "0", "1", ",", "5", "0",
      "0", " ", "-", "-", ">", " ", "0", "0", ":", "0", "0", ":", "0", "3",
      ",", "0", "0", "0", "\n", "w", "o", "r", "l", "d", ".", "\n", "\n",
      "2", "\n", "0", "0", ":", "0", "0", ":", "0", "0", ",", "0", "0",
      "0", " ", "-", "-", ">", " ", "0", "0", ":", "0", "0", ":", "0", "1",
      ",", "5", "0", "0", "\n", "H", "e", "l", "l", "o", "\n", "\n">>

\* C7: the SRT file holds one cue block per segment, in order, the n-th block
\* numbered n whatever ids the segments store; no segment gives an empty file.
C7_SrtCues ==
    (pc \in {"tf_loop", "done"} /\ "srt" \in Range(Processed)) =>
        LET segments == result[1].segments IN
        /\ files["srt"] = <<C7_Blocks(segments, Len(segments))>>
        /\ (emitted = <<>> => files["srt"] = << <<>> >>)
        /\ (emitted = <<SegWorld, SegHello>> =>
                files["srt"] = <<SrtWorldHello>>)

C7_Witness ==
    /\ pc = "done"
    /\ "srt" \in Range(output_formats)
    /\ emitted = <<SegWorld, SegBlank>>
    /\ files["srt"] # <<>>

\* The statement of C9 as written: a call for a missing audio file changes
\* neither the output files nor the directories.
C9_MissingAudioLeavesDiskUnchanged ==
    [][(entry = "transcribe_file" /\ ~audio_exists) =>
            (files' = files /\ dirs' = dirs)]_vars

----------------------------------------------------------------------------
(* Properties of _format_timestamp, checked under SpecTs. *)

DigitValue(c) == CHOOSE d \in 0..9 : DigitChars[d + 1] = c

IsDigits(cs) == \A i \in 1..Len(cs) : cs[i] \in Range(DigitChars)

RECURSIVE ParseNat(_)
ParseNat(cs) ==
    IF cs = <<>> THEN 0
    ELSE 10 * ParseNat(SubSeq(cs, 1, Len(cs) - 1)) + DigitValue(cs[Len(cs)])

\* The fields of a rendered timestamp, read from its right end.
HoursText(o) == SubSeq(o, 1, Len(o) - 10)
MinutesText(o) == SubSeq(o, Len(o) - 8, Len(o) - 7)
SecondsText(o) == SubSeq(o, Len(o) - 5, Len(o) - 4)
MillisText(o) == SubSeq(o, Len(o) - 2, Len(o))

WellFormed(o, sep) ==
    /\ Len(o) >= 12
    /\ o[Len(o) - 9] = ":"
    /\ o[Len(o) - 6] = ":"
    /\ o[Len(o) - 3] = sep
    /\ IsDigits(HoursText(o))
    /\ IsDigits(MinutesText(o))
    /\ IsDigits(SecondsText(o))
    /\ IsDigits(MillisText(o))

\* o renders the whole-millisecond value t with separator sep.
Renders(o, t, sep) ==
    /\ WellFormed(o, sep)
    /\ ParseNat(HoursText(o)) = t.s \div 3600
    /\ ParseNat(MinutesText(o)) = (t.s % 3600) \div 60
    /\ ParseNat(SecondsText(o)) = t.s % 60
    /\ ParseNat(MillisText(o)) = t.us \div 1000
    /\ Len(HoursText(o)) = IF t.s \div 3600 < 100 THEN 2 ELSE 3

\* 01:02:05,125
Srt3725_125 ==
    <<"0", "1", ":", "0", "2", ":", "0", "5", ",", "1", "2", "5">>

\* 01:02:05.125
Vtt3725_125 ==
    <<"0", "1", ":", "0", "2", ":", "0", "5", ".", "1", "2", "5">>

\* 00:00:00,000
SrtZero ==
    <<"0", "0", ":", "0", "0", ":", "0", "0", ",", "0", "0", "0">>

\* 100:00:00,500
Srt100Hours ==
    <<"1", "0", "0", ":", "0", "0", ":", "0", "0", ",", "5", "0", "0">>

\* C8: a whole number of milliseconds is rendered as HH:MM:SS,mmm (SRT) and
\* HH:MM:SS.mmm (VTT) with floor hours, minutes and seconds and the millisecond
\* remainder, zero padded; the two differ in the separator only; hours of 100
\* or more are rendered in full.
C8_WholeMillisRendering ==
    ts_seconds.us % 1000 = 0 =>
        /\ (ts_srt # <<>> => Renders(ts_srt[1], ts_seconds, ","))
        /\ (ts_vtt # <<>> => Renders(ts_vtt[1], ts_seconds, "."))
        /\ (ts_srt # <<>> /\ ts_vtt # <<>> =>
                /\ Len(ts_srt[1]) = Len(ts_vtt[1])
                /\ \A i \in 1..Len(ts_srt[1]) :
                      i # Len(ts_srt[1]) - 3 => ts_srt[1][i] = ts_vtt[1][i])
        /\ (ts_seconds.s = 3725 /\ ts_seconds.us = 125000 =>
                /\ ts_srt \in {<<>>, <<Srt3725_125>>}
                /\ ts_vtt \in {<<>>, <<Vtt3725_125>>})
        /\ (ts_seconds.s = 0 /\ ts_seconds.us = 0 =>
                ts_srt \in {<<>>, <<SrtZero>>})
        /\ (ts_seconds.s = 360000 /\ ts_seconds.us = 500000 =>
                ts_srt \in {<<>>, <<Srt100Hours>>})

C8_Witness ==
    /\ ts_seconds.s = 360000
    /\ ts_seconds.us = 500000
    /\ ts_srt # <<>>
    /\ ts_vtt # <<>>

\* C10: for every time value, the seconds field and the minutes field of the
\* rendered timestamp are between 00 and 59, in either style.
C10_FieldsBelow60 ==
    /\ ts_srt # <<>> =>
          /\ WellFormed(ts_srt[1], ",")
          /\ ParseNat(SecondsText(ts_srt[1])) <= 59
          /\ ParseNat(MinutesText(ts_srt[1])) <= 59
    /\ ts_vtt # <<>> =>
          /\ WellFormed(ts_vtt[1], ".")
          /\ ParseNat(SecondsText(ts_vtt[1])) <= 59
          /\ ParseNat(MinutesText(ts_vtt[1])) <= 59

=============================================================================
